---- MODULE Spec2Model ----
(***************************************************************************)
(* Model of backend/server.py: the startup seeding routine startup_db (the *)
(* Seed Reconciler), the document store it writes, and the read handlers   *)
(* of the API router.  Collections are sequences of documents in insertion *)
(* order; every store call (delete_many, count_documents, insert_many,     *)
(* find, find_one) is one atomic step, and the awaits between them are the *)
(* points where another process instance may run.                          *)
(***************************************************************************)
EXTENDS Integers, Sequences, FiniteSets, TLC

\* startup_db: emotions = [...]  (11 records; _id and name_english kept, id_type is the
\* Python type of _id)
emotions ==
    << [_id |-> "fear", id_type |-> "str", name_english |-> "Fear"],
       [_id |-> "anger", id_type |-> "str", name_english |-> "Anger"],
       [_id |-> "grief", id_type |-> "str", name_english |-> "Grief"],
       [_id |-> "confusion", id_type |-> "str", name_english |-> "Confusion"],
       [_id |-> "detachment", id_type |-> "str", name_english |-> "Detachment"],
       [_id |-> "joy", id_type |-> "str", name_english |-> "Joy"],
       [_id |-> "doubt", id_type |-> "str", name_english |-> "Doubt"],
       [_id |-> "pride", id_type |-> "str", name_english |-> "Pride"],
       [_id |-> "desire", id_type |-> "str", name_english |-> "Desire"],
       [_id |-> "envy", id_type |-> "str", name_english |-> "Envy"],
       [_id |-> "despair", id_type |-> "str", name_english |-> "Despair"] >>

\* startup_db: moods = [...]  (66 records, 6 per emotion; _id and emotion_id kept)
moods ==
    << [_id |-> "fear_future", id_type |-> "str", emotion_id |-> "fear"],
       [_id |-> "fear_death", id_type |-> "str", emotion_id |-> "fear"],
       [_id |-> "fear_failure", id_type |-> "str", emotion_id |-> "fear"],
       [_id |-> "fear_illness", id_type |-> "str", emotion_id |-> "fear"],
       [_id |-> "fear_abandonment", id_type |-> "str", emotion_id |-> "fear"],
       [_id |-> "fear_change", id_type |-> "str", emotion_id |-> "fear"],
       [_id |-> "anger_injustice", id_type |-> "str", emotion_id |-> "anger"],
       [_id |-> "anger_self", id_type |-> "str", emotion_id |-> "anger"],
       [_id |-> "anger_world", id_type |-> "str", emotion_id |-> "anger"],
       [_id |-> "anger_betrayal", id_type |-> "str", emotion_id |-> "anger"],
       [_id |-> "anger_powerless", id_type |-> "str", emotion_id |-> "anger"],
       [_id |-> "anger_disrespect", id_type |-> "str", emotion_id |-> "anger"],
       [_id |-> "grief_loss", id_type |-> "str", emotion_id |-> "grief"],
       [_id |-> "grief_change", id_type |-> "str", emotion_id |-> "grief"],
       [_id |-> "grief_health", id_type |-> "str", emotion_id |-> "grief"],
       [_id |-> "grief_dream", id_type |-> "str", emotion_id |-> "grief"],
       [_id |-> "grief_relationship", id_type |-> "str", emotion_id |-> "grief"],
       [_id |-> "grief_youth", id_type |-> "str", emotion_id |-> "grief"],
       [_id |-> "confusion_purpose", id_type |-> "str", emotion_id |-> "confusion"],
       [_id |-> "confusion_choice", id_type |-> "str", emotion_id |-> "confusion"],
       [_id |-> "confusion_meaning", id_type |-> "str", emotion_id |-> "confusion"],
       [_id |-> "confusion_identity", id_type |-> "str", emotion_id |-> "confusion"],
       [_id |-> "confusion_direction", id_type |-> "str", emotion_id |-> "confusion"],
       [_id |-> "confusion_values", id_type |-> "str", emotion_id |-> "confusion"],
       [_id |-> "detachment_loneliness", id_type |-> "str", emotion_id |-> "detachment"],
       [_id |-> "detachment_emptiness", id_type |-> "str", emotion_id |-> "detachment"],
       [_id |-> "detachment_world", id_type |-> "str", emotion_id |-> "detachment"],
       [_id |-> "detachment_numb", id_type |-> "str", emotion_id |-> "detachment"],
       [_id |-> "detachment_apathy", id_type |-> "str", emotion_id |-> "detachment"],
       [_id |-> "detachment_tired", id_type |-> "str", emotion_id |-> "detachment"],
       [_id |-> "joy_gratitude", id_type |-> "str", emotion_id |-> "joy"],
       [_id |-> "joy_peace", id_type |-> "str", emotion_id |-> "joy"],
       [_id |-> "joy_acceptance", id_type |-> "str", emotion_id |-> "joy"],
       [_id |-> "joy_serenity", id_type |-> "str", emotion_id |-> "joy"],
       [_id |-> "joy_connection", id_type |-> "str", emotion_id |-> "joy"],
       [_id |-> "joy_wisdom", id_type |-> "str", emotion_id |-> "joy"],
       [_id |-> "doubt_faith", id_type |-> "str", emotion_id |-> "doubt"],
       [_id |-> "doubt_teachings", id_type |-> "str", emotion_id |-> "doubt"],
       [_id |-> "doubt_self", id_type |-> "str", emotion_id |-> "doubt"],
       [_id |-> "doubt_goodness", id_type |-> "str", emotion_id |-> "doubt"],
       [_id |-> "doubt_purpose", id_type |-> "str", emotion_id |-> "doubt"],
       [_id |-> "doubt_karma", id_type |-> "str", emotion_id |-> "doubt"],
       [_id |-> "pride_achievement", id_type |-> "str", emotion_id |-> "pride"],
       [_id |-> "pride_knowledge", id_type |-> "str", emotion_id |-> "pride"],
       [_id |-> "pride_status", id_type |-> "str", emotion_id |-> "pride"],
       [_id |-> "pride_appearance", id_type |-> "str", emotion_id |-> "pride"],
       [_id |-> "pride_virtue", id_type |-> "str", emotion_id |-> "pride"],
       [_id |-> "pride_independence", id_type |-> "str", emotion_id |-> "pride"],
       [_id |-> "desire_wealth", id_type |-> "str", emotion_id |-> "desire"],
       [_id |-> "desire_pleasure", id_type |-> "str", emotion_id |-> "desire"],
       [_id |-> "desire_control", id_type |-> "str", emotion_id |-> "desire"],
       [_id |-> "desire_recognition", id_type |-> "str", emotion_id |-> "desire"],
       [_id |-> "desire_comfort", id_type |-> "str", emotion_id |-> "desire"],
       [_id |-> "desire_security", id_type |-> "str", emotion_id |-> "desire"],
       [_id |-> "envy_success", id_type |-> "str", emotion_id |-> "envy"],
       [_id |-> "envy_happiness", id_type |-> "str", emotion_id |-> "envy"],
       [_id |-> "envy_fortune", id_type |-> "str", emotion_id |-> "envy"],
       [_id |-> "envy_youth", id_type |-> "str", emotion_id |-> "envy"],
       [_id |-> "envy_family", id_type |-> "str", emotion_id |-> "envy"],
       [_id |-> "envy_health", id_type |-> "str", emotion_id |-> "envy"],
       [_id |-> "despair_effort", id_type |-> "str", emotion_id |-> "despair"],
       [_id |-> "despair_alone", id_type |-> "str", emotion_id |-> "despair"],
       [_id |-> "despair_future", id_type |-> "str", emotion_id |-> "despair"],
       [_id |-> "despair_burden", id_type |-> "str", emotion_id |-> "despair"],
       [_id |-> "despair_mistakes", id_type |-> "str", emotion_id |-> "despair"],
       [_id |-> "despair_meaning", id_type |-> "str", emotion_id |-> "despair"] >>

\* startup_db: guidances = [...]  (66 records; _id and mood_id kept)
guidances ==
    << [_id |-> "guidance_fear_future", id_type |-> "str", mood_id |-> "fear_future"],
       [_id |-> "guidance_fear_death", id_type |-> "str", mood_id |-> "fear_death"],
       [_id |-> "guidance_anger_injustice", id_type |-> "str", mood_id |-> "anger_injustice"],
       [_id |-> "guidance_grief_loss", id_type |-> "str", mood_id |-> "grief_loss"],
       [_id |-> "guidance_confusion_purpose", id_type |-> "str", mood_id |-> "confusion_purpose"],
       [_id |-> "guidance_detachment_loneliness", id_type |-> "str", mood_id |-> "detachment_loneliness"],
       [_id |-> "guidance_joy_gratitude", id_type |-> "str", mood_id |-> "joy_gratitude"],
       [_id |-> "guidance_joy_peace", id_type |-> "str", mood_id |-> "joy_peace"],
       [_id |-> "guidance_joy_acceptance", id_type |-> "str", mood_id |-> "joy_acceptance"],
       [_id |-> "guidance_doubt_faith", id_type |-> "str", mood_id |-> "doubt_faith"],
       [_id |-> "guidance_doubt_teachings", id_type |-> "str", mood_id |-> "doubt_teachings"],
       [_id |-> "guidance_doubt_self", id_type |-> "str", mood_id |-> "doubt_self"],
       [_id |-> "guidance_pride_achievement", id_type |-> "str", mood_id |-> "pride_achievement"],
       [_id |-> "guidance_pride_knowledge", id_type |-> "str", mood_id |-> "pride_knowledge"],
       [_id |-> "guidance_pride_status", id_type |-> "str", mood_id |-> "pride_status"],
       [_id |-> "guidance_desire_wealth", id_type |-> "str", mood_id |-> "desire_wealth"],
       [_id |-> "guidance_desire_pleasure", id_type |-> "str", mood_id |-> "desire_pleasure"],
       [_id |-> "guidance_desire_control", id_type |-> "str", mood_id |-> "desire_control"],
       [_id |-> "guidance_envy_success", id_type |-> "str", mood_id |-> "envy_success"],
       [_id |-> "guidance_envy_happiness", id_type |-> "str", mood_id |-> "envy_happiness"],
       [_id |-> "guidance_envy_fortune", id_type |-> "str", mood_id |-> "envy_fortune"],
       [_id |-> "guidance_despair_effort", id_type |-> "str", mood_id |-> "despair_effort"],
       [_id |-> "guidance_despair_alone", id_type |-> "str", mood_id |-> "despair_alone"],
       [_id |-> "guidance_despair_future", id_type |-> "str", mood_id |-> "despair_future"],
       [_id |-> "guidance_fear_failure", id_type |-> "str", mood_id |-> "fear_failure"],
       [_id |-> "guidance_anger_world", id_type |-> "str", mood_id |-> "anger_world"],
       [_id |-> "guidance_anger_self", id_type |-> "str", mood_id |-> "anger_self"],
       [_id |-> "guidance_grief_change", id_type |-> "str", mood_id |-> "grief_change"],
       [_id |-> "guidance_grief_health", id_type |-> "str", mood_id |-> "grief_health"],
       [_id |-> "guidance_confusion_choice", id_type |-> "str", mood_id |-> "confusion_choice"],
       [_id |-> "guidance_confusion_meaning", id_type |-> "str", mood_id |-> "confusion_meaning"],
       [_id |-> "guidance_detachment_emptiness", id_type |-> "str", mood_id |-> "detachment_emptiness"],
       [_id |-> "guidance_detachment_world", id_type |-> "str", mood_id |-> "detachment_world"],
       [_id |-> "guidance_fear_illness", id_type |-> "str", mood_id |-> "fear_illness"],
       [_id |-> "guidance_fear_abandonment", id_type |-> "str", mood_id |-> "fear_abandonment"],
       [_id |-> "guidance_fear_change", id_type |-> "str", mood_id |-> "fear_change"],
       [_id |-> "guidance_anger_betrayal", id_type |-> "str", mood_id |-> "anger_betrayal"],
       [_id |-> "guidance_anger_powerless", id_type |-> "str", mood_id |-> "anger_powerless"],
       [_id |-> "guidance_anger_disrespect", id_type |-> "str", mood_id |-> "anger_disrespect"],
       [_id |-> "guidance_grief_dream", id_type |-> "str", mood_id |-> "grief_dream"],
       [_id |-> "guidance_grief_relationship", id_type |-> "str", mood_id |-> "grief_relationship"],
       [_id |-> "guidance_grief_youth", id_type |-> "str", mood_id |-> "grief_youth"],
       [_id |-> "guidance_confusion_identity", id_type |-> "str", mood_id |-> "confusion_identity"],
       [_id |-> "guidance_confusion_direction", id_type |-> "str", mood_id |-> "confusion_direction"],
       [_id |-> "guidance_confusion_values", id_type |-> "str", mood_id |-> "confusion_values"],
       [_id |-> "guidance_detachment_numb", id_type |-> "str", mood_id |-> "detachment_numb"],
       [_id |-> "guidance_detachment_apathy", id_type |-> "str", mood_id |-> "detachment_apathy"],
       [_id |-> "guidance_detachment_tired", id_type |-> "str", mood_id |-> "detachment_tired"],
       [_id |-> "guidance_joy_serenity", id_type |-> "str", mood_id |-> "joy_serenity"],
       [_id |-> "guidance_joy_connection", id_type |-> "str", mood_id |-> "joy_connection"],
       [_id |-> "guidance_joy_wisdom", id_type |-> "str", mood_id |-> "joy_wisdom"],
       [_id |-> "guidance_doubt_goodness", id_type |-> "str", mood_id |-> "doubt_goodness"],
       [_id |-> "guidance_doubt_purpose", id_type |-> "str", mood_id |-> "doubt_purpose"],
       [_id |-> "guidance_doubt_karma", id_type |-> "str", mood_id |-> "doubt_karma"],
       [_id |-> "guidance_pride_appearance", id_type |-> "str", mood_id |-> "pride_appearance"],
       [_id |-> "guidance_pride_virtue", id_type |-> "str", mood_id |-> "pride_virtue"],
       [_id |-> "guidance_pride_independence", id_type |-> "str", mood_id |-> "pride_independence"],
       [_id |-> "guidance_desire_recognition", id_type |-> "str", mood_id |-> "desire_recognition"],
       [_id |-> "guidance_desire_comfort", id_type |-> "str", mood_id |-> "desire_comfort"],
       [_id |-> "guidance_desire_security", id_type |-> "str", mood_id |-> "desire_security"],
       [_id |-> "guidance_envy_youth", id_type |-> "str", mood_id |-> "envy_youth"],
       [_id |-> "guidance_envy_family", id_type |-> "str", mood_id |-> "envy_family"],
       [_id |-> "guidance_envy_health", id_type |-> "str", mood_id |-> "envy_health"],
       [_id |-> "guidance_despair_burden", id_type |-> "str", mood_id |-> "despair_burden"],
       [_id |-> "guidance_despair_mistakes", id_type |-> "str", mood_id |-> "despair_mistakes"],
       [_id |-> "guidance_despair_meaning", id_type |-> "str", mood_id |-> "despair_meaning"] >>

\* startup_db: chapters = [...]  (18 records; _id, chapter_number and the verse locators
\* of verses kept)
chapters ==
    << [_id |-> 1, id_type |-> "int", chapter_number |-> 1, verses |-> << "1.30" >>],
       [_id |-> 2, id_type |-> "int", chapter_number |-> 2, verses |-> << "2.20", "2.47" >>],
       [_id |-> 3, id_type |-> "int", chapter_number |-> 3, verses |-> << "3.19" >>],
       [_id |-> 4, id_type |-> "int", chapter_number |-> 4, verses |-> << "4.7" >>],
       [_id |-> 5, id_type |-> "int", chapter_number |-> 5, verses |-> << "5.10" >>],
       [_id |-> 6, id_type |-> "int", chapter_number |-> 6, verses |-> << "6.5" >>],
       [_id |-> 7, id_type |-> "int", chapter_number |-> 7, verses |-> << "7.8" >>],
       [_id |-> 8, id_type |-> "int", chapter_number |-> 8, verses |-> << "8.7" >>],
       [_id |-> 9, id_type |-> "int", chapter_number |-> 9, verses |-> << "9.26" >>],
       [_id |-> 10, id_type |-> "int", chapter_number |-> 10, verses |-> << "10.20" >>],
       [_id |-> 11, id_type |-> "int", chapter_number |-> 11, verses |-> << "11.54" >>],
       [_id |-> 12, id_type |-> "int", chapter_number |-> 12, verses |-> << "12.8" >>],
       [_id |-> 13, id_type |-> "int", chapter_number |-> 13, verses |-> << "13.2" >>],
       [_id |-> 14, id_type |-> "int", chapter_number |-> 14, verses |-> << "14.5" >>],
       [_id |-> 15, id_type |-> "int", chapter_number |-> 15, verses |-> << "15.7" >>],
       [_id |-> 16, id_type |-> "int", chapter_number |-> 16, verses |-> << "16.3" >>],
       [_id |-> 17, id_type |-> "int", chapter_number |-> 17, verses |-> << "17.3" >>],
       [_id |-> 18, id_type |-> "int", chapter_number |-> 18, verses |-> << "18.66", "18.78" >>] >>

\* The process instances started against the same store.
Instances == {1, 2}

\* The instance of the single-instance specification.
Single == {1}

\* Largest number of documents the store holds before the first boot.
MaxPrior == 2

VARIABLES
    db,                 \* the store: db.emotions, db.moods, db.guidances, db.chapters
    pc,                 \* pc[i]: where instance i stands in its life cycle
    existing_chapters,  \* existing_chapters[i]: startup_db's local of that name
    err,                \* err[i]: the exception that ended instance i's startup
    ops,                \* ops[i]: store writes completed by instance i's current run
    resp                \* the last HTTP response sent by a handler

vars == << db, pc, existing_chapters, err, ops, resp >>

\* A value that is no document and no response (Python's None).
None == [none |-> TRUE]

\* ---------------------------------------------------------------- the store

\* What the store may hold before the first boot: documents of the current
\* dataset, documents of an earlier dataset revision (a guidance for a mood
\* that has another one, a mood without emotion, a chapter out of range) and
\* documents inserted by hand, whose _id is a store-generated ObjectId (held
\* as its 24 hexadecimal digits, with id_type "ObjectId").
PriorPool ==
    [emotions |->
        << emotions[1],
           [_id |-> "fear", id_type |-> "str", name_english |-> "Anxiety"],
           [_id |-> "65f000000000000000000e01", id_type |-> "ObjectId",
            name_english |-> "Shame"] >>,
     moods |->
        << moods[1],
           [_id |-> "shame_public", id_type |-> "str", emotion_id |-> "shame"],
           [_id |-> "fear_unknown", id_type |-> "str", emotion_id |-> "fear"] >>,
     guidances |->
        << guidances[1],
           [_id |-> "65f000000000000000000a01", id_type |-> "ObjectId",
            mood_id |-> "fear_future"],
           [_id |-> "guidance_shame_public", id_type |-> "str",
            mood_id |-> "shame_public"] >>,
     chapters |->
        << chapters[2],
           chapters[1],
           [_id |-> 19, id_type |-> "int", chapter_number |-> 19,
            verses |-> << "19.1" >>] >>]

Collections == {"emotions", "moods", "guidances", "chapters"}

\* Two _id values are the same key of a collection.
SameId(a, b) == a.id_type = b.id_type /\ a._id = b._id

\* The documents of seq at the positions in idx, in seq's order.
RECURSIVE Pick(_, _)
Pick(seq, idx) ==
    IF seq = << >> THEN << >>
    ELSE LET rest == Pick(SubSeq(seq, 1, Len(seq) - 1), idx)
         IN  IF Len(seq) \in idx THEN Append(rest, seq[Len(seq)]) ELSE rest

\* The store enforces unique _id within a collection.
UniqueIds(coll) ==
    \A j, k \in 1..Len(coll) : j # k => ~SameId(coll[j], coll[k])

PriorStores ==
    { [c \in Collections |-> Pick(PriorPool[c], {p[2] : p \in {q \in sel : q[1] = c}})] :
        sel \in { s \in SUBSET (Collections \X (1..3)) : Cardinality(s) <= MaxPrior } }

\* collection.delete_many({}): every document matches the empty filter.
delete_many(coll) == << >>

\* collection.count_documents({})
count_documents(coll) == Len(coll)

\* collection.insert_many(docs), ordered: the documents are written one by
\* one in list order; the first one whose _id is already present raises
\* BulkWriteError (duplicate key), the ones before it stay written.
RECURSIVE insert_many(_, _)
insert_many(coll, docs) ==
    IF docs = << >> THEN [docs |-> coll, error |-> FALSE]
    ELSE IF \E k \in 1..Len(coll) : SameId(coll[k], Head(docs))
         THEN [docs |-> coll, error |-> TRUE]
         ELSE insert_many(Append(coll, Head(docs)), Tail(docs))

\* ---------------------------------------------------------------- the handlers

\* Variant: the whole cursor is returned.
to_list_all(cursor, length) == cursor

\* cursor.to_list(length): at most length documents, in cursor order.
to_list(cursor, length) ==
    SubSeq(cursor, 1, IF Len(cursor) < length THEN Len(cursor) ELSE length)

\* Variant: the filter is not applied.
find_unfiltered(coll, field, value) == coll

\* collection.find({field: value}): the matching documents in natural
\* (insertion) order.
find(coll, field, value) ==
    SelectSeq(coll, LAMBDA d : field \in DOMAIN d /\ d[field] = value)

\* collection.find_one({field: value}): the first matching document, or None.
find_one(coll, field, value) ==
    LET found == find(coll, field, value)
    IN  IF Len(found) = 0 THEN None ELSE found[1]

\* Variant: the sort direction is -1.
RECURSIVE sort_descending(_, _)
sort_descending(cursor, field) ==
    IF cursor = << >> THEN << >>
    ELSE LET last == cursor[Len(cursor)]
             rest == sort_descending(SubSeq(cursor, 1, Len(cursor) - 1), field)
             keep == SelectSeq(rest, LAMBDA d : d[field] >= last[field])
             move == SelectSeq(rest, LAMBDA d : d[field] < last[field])
         IN  keep \o << last >> \o move

\* cursor.sort(field, 1): ascending by field, documents with equal keys in
\* cursor order.
RECURSIVE sort(_, _)
sort(cursor, field) ==
    IF cursor = << >> THEN << >>
    ELSE LET last == cursor[Len(cursor)]
             rest == sort(SubSeq(cursor, 1, Len(cursor) - 1), field)
             keep == SelectSeq(rest, LAMBDA d : d[field] <= last[field])
             move == SelectSeq(rest, LAMBDA d : d[field] > last[field])
         IN  keep \o << last >> \o move

\* str(ObjectId(...)) is the 24 hexadecimal digits the model holds the
\* ObjectId as; str of an int is its decimal digits.
str(value, type) == IF type = "int" THEN ToString(value) ELSE value

\* Variant: the identifier is converted whatever its type.
str_id_always(obj) ==
    IF obj # None /\ "_id" \in DOMAIN obj
    THEN [obj EXCEPT !._id = str(obj._id, obj.id_type), !.id_type = "str"]
    ELSE obj

\* def str_id(obj)
str_id(obj) ==
    IF obj # None /\ "_id" \in DOMAIN obj
    THEN IF obj.id_type \in {"int", "str"}
         THEN obj
         ELSE [obj EXCEPT !._id = str(obj._id, obj.id_type), !.id_type = "str"]
    ELSE obj

StrIds(docs) == [k \in 1..Len(docs) |-> str_id(docs[k])]

\* No response is on its way to a client.
NoResponse == [request |-> "", status |-> 0, body |-> << >>]

Idle == resp = NoResponse

Ok(body) == [status |-> 200, body |-> body]

HTTPException(status_code, detail) == [status |-> status_code, body |-> detail]

\* @api_router.get("/")
root == Ok("SHLOKA API - Bhagavad Gita Guidance by Emotion")

\* Variant: the list is cut at 10 documents.
get_emotions_first_ten(d) == Ok(StrIds(to_list(d.emotions, 10)))

\* Variant: an empty result is answered like an empty mood list.
get_emotions_not_found(d) ==
    IF Len(d.emotions) = 0
    THEN HTTPException(404, "No emotions found")
    ELSE Ok(StrIds(to_list(d.emotions, 100)))

\* @api_router.get("/emotions")
get_emotions(d) == Ok(StrIds(to_list(d.emotions, 100)))

\* Variant: the moods are looked up by their own _id.
get_moods_by_id(d, emotion_id) ==
    LET found == to_list(find(d.moods, "_id", emotion_id), 100)
    IN  IF Len(found) = 0
        THEN HTTPException(404, "No moods found for this emotion")
        ELSE Ok(StrIds(found))

\* Variant: an empty result is returned as an empty list.
get_moods_empty_ok(d, emotion_id) ==
    Ok(StrIds(to_list(find(d.moods, "emotion_id", emotion_id), 100)))

\* @api_router.get("/moods/{emotion_id}")
get_moods(d, emotion_id) ==
    LET found == to_list(find(d.moods, "emotion_id", emotion_id), 100)
    IN  IF Len(found) = 0
        THEN HTTPException(404, "No moods found for this emotion")
        ELSE Ok(StrIds(found))

\* Variant: the guidance is looked up by its own _id.
get_guidance_by_id(d, mood_id) ==
    LET guidance == find_one(d.guidances, "_id", mood_id)
    IN  IF guidance = None
        THEN HTTPException(404, "Guidance not found for this mood")
        ELSE Ok(str_id(guidance))

\* @api_router.get("/guidance/{mood_id}")
get_guidance(d, mood_id) ==
    LET guidance == find_one(d.guidances, "mood_id", mood_id)
    IN  IF guidance = None
        THEN HTTPException(404, "Guidance not found for this mood")
        ELSE Ok(str_id(guidance))

\* @api_router.get("/chapters")
get_chapters(d) == Ok(StrIds(to_list(sort(d.chapters, "chapter_number"), 100)))

\* Variant: the path parameter is taken as a zero-based index.
get_chapter_zero_based(d, chapter_number) ==
    LET chapter == find_one(d.chapters, "chapter_number", chapter_number + 1)
    IN  IF chapter = None
        THEN HTTPException(404, "Chapter not found")
        ELSE Ok(str_id(chapter))

\* @api_router.get("/chapters/{chapter_number}")
get_chapter(d, chapter_number) ==
    LET chapter == find_one(d.chapters, "chapter_number", chapter_number)
    IN  IF chapter = None
        THEN HTTPException(404, "Chapter not found")
        ELSE Ok(str_id(chapter))

\* The decimal digits, by value + 1.
DigitChars == << "0", "1", "2", "3", "4", "5", "6", "7", "8", "9" >>

\* A path segment is held as the sequence of its characters.  Digits(n) is
\* the segment a client writes for the natural number n.
RECURSIVE Digits(_)
Digits(n) ==
    IF n < 10 THEN << DigitChars[n + 1] >>
    ELSE Digits(n \div 10) \o << DigitChars[(n % 10) + 1] >>

\* The characters of a segment as the string of the request path.
RECURSIVE Join(_)
Join(segment) ==
    IF segment = << >> THEN "" ELSE Head(segment) \o Join(Tail(segment))

\* chapter_number: int -- the conversion of the path segment that the
\* annotation asks for.  The segments drawn here are made of decimal digits
\* or of letters only; a segment of digits is the number it writes, a
\* segment with a letter is no integer.
RECURSIVE DigitsValue(_)
DigitsValue(segment) ==
    IF segment = << >> THEN 0
    ELSE LET c == segment[Len(segment)]
         IN  10 * DigitsValue(SubSeq(segment, 1, Len(segment) - 1))
                + (CHOOSE v \in 0..9 : DigitChars[v + 1] = c)

int(segment) ==
    IF segment # << >> /\ \A k \in 1..Len(segment) : \E v \in 0..9 : DigitChars[v + 1] = segment[k]
    THEN [ok |-> TRUE, value |-> DigitsValue(segment)]
    ELSE [ok |-> FALSE, value |-> 0]

\* The response to a path parameter that fails the conversion.
RequestValidationError == [status |-> 422, body |-> "int_parsing"]

\* Variant: a segment that is no integer is answered like an absent chapter.
get_chapter_route_not_found(d, segment) ==
    IF int(segment).ok
    THEN get_chapter(d, int(segment).value)
    ELSE HTTPException(404, "Chapter not found")

\* GET /chapters/{chapter_number} as routed: the segment is converted to int
\* before the handler is called, and the handler is not called when the
\* conversion fails.
get_chapter_route(d, segment) ==
    IF int(segment).ok
    THEN get_chapter(d, int(segment).value)
    ELSE RequestValidationError

\* backend_test.py: the emotion identifiers the emotions endpoint must return.
EXPECTED_EMOTIONS ==
    { "fear", "anger", "grief", "confusion", "detachment",
      "joy", "doubt", "pride", "desire", "envy", "despair" }

\* backend_test.py: the moods whose guidance was missing before the seed set
\* was corrected.
NEWLY_FIXED_MOODS ==
    { "anger_world", "confusion_choice", "confusion_meaning",
      "detachment_emptiness", "grief_change", "grief_health" }

\* Path parameters the requests of the model carry.
EmotionIdInputs == {"fear", "joy", "shame", "invalid_emotion", "nonexistent_emotion"}

MoodIdInputs == {"fear_future", "anger_world", "shame_public", "invalid_mood"}

ChapterNumberInputs == {1, 18, 19}

\* A segment that is no integer.
MalformedChapterNumber == << "a", "b", "c" >>

ChapterSegmentInputs ==
    { Digits(n) : n \in ChapterNumberInputs } \cup { MalformedChapterNumber }

\* ---------------------------------------------------------------- startup_db

\* startup_db run from its first line to its last with no other writer in
\* between: the store it leaves, and whether an insert_many raised.
startup_db(d) ==
    LET cleared == [d EXCEPT !.emotions = delete_many(@),
                             !.moods = delete_many(@),
                             !.guidances = delete_many(@)]
        existing == count_documents(cleared.chapters)
        e == insert_many(cleared.emotions, emotions)
        m == insert_many(cleared.moods, moods)
        g == insert_many(cleared.guidances, guidances)
        c == IF existing = 0
             THEN insert_many(cleared.chapters, chapters)
             ELSE [docs |-> cleared.chapters, error |-> FALSE]
        afterE == [cleared EXCEPT !.emotions = e.docs]
        afterM == [afterE EXCEPT !.moods = m.docs]
        afterG == [afterM EXCEPT !.guidances = g.docs]
        afterC == [afterG EXCEPT !.chapters = c.docs]
    IN  IF e.error THEN [db |-> afterE, error |-> TRUE]
        ELSE IF m.error THEN [db |-> afterM, error |-> TRUE]
        ELSE IF g.error THEN [db |-> afterG, error |-> TRUE]
        ELSE [db |-> afterC, error |-> c.error]

ReconcilerSteps ==
    { "delete_emotions", "delete_moods", "delete_guidances", "count_chapters",
      "insert_emotions", "insert_moods", "insert_guidances", "insert_chapters" }

NoOps == [clears |-> 0, inserts |-> 0]

Init ==
    /\ db \in { s \in PriorStores : \A c \in Collections : UniqueIds(s[c]) }
    /\ pc = [i \in Instances |-> "down"]
    /\ existing_chapters = [i \in Instances |-> 0]
    /\ err = [i \in Instances |-> "none"]
    /\ ops = [i \in Instances |-> NoOps]
    /\ resp = NoResponse

\* The process starts: the startup event runs startup_db before any request
\* is accepted.
Boot(i) ==
    /\ Idle
    /\ pc[i] = "down"
    /\ pc' = [pc EXCEPT ![i] = "delete_emotions"]
    /\ UNCHANGED << db, existing_chapters, err, ops, resp >>

\* One delete_many({}) of startup_db: the collection named c is emptied.
Clear(i, at, c, next) ==
    /\ Idle
    /\ pc[i] = at
    /\ db' = [db EXCEPT ![c] = delete_many(db[c])]
    /\ pc' = [pc EXCEPT ![i] = next]
    /\ ops' = [ops EXCEPT ![i].clears = @ + 1]
    /\ UNCHANGED << existing_chapters, err, resp >>

\* Variant: the clear of the Emotion collection is left out.
DeleteEmotionsSkipped(i) ==
    /\ Idle
    /\ pc[i] = "delete_emotions"
    /\ pc' = [pc EXCEPT ![i] = "delete_moods"]
    /\ UNCHANGED << db, existing_chapters, err, ops, resp >>

DeleteEmotions(i) == Clear(i, "delete_emotions", "emotions", "delete_moods")

\* Variant: the clear of the Mood collection is left out.
DeleteMoodsSkipped(i) ==
    /\ Idle
    /\ pc[i] = "delete_moods"
    /\ pc' = [pc EXCEPT ![i] = "delete_guidances"]
    /\ UNCHANGED << db, existing_chapters, err, ops, resp >>

DeleteMoods(i) == Clear(i, "delete_moods", "moods", "delete_guidances")

\* Variant: the clear of the Guidance collection is left out.
DeleteGuidancesSkipped(i) ==
    /\ Idle
    /\ pc[i] = "delete_guidances"
    /\ pc' = [pc EXCEPT ![i] = "count_chapters"]
    /\ UNCHANGED << db, existing_chapters, err, ops, resp >>

DeleteGuidances(i) == Clear(i, "delete_guidances", "guidances", "count_chapters")

\* Variant: the Chapter collection is cleared like the other three, after
\* the count was taken.
CountChaptersThenClear(i) ==
    /\ Idle
    /\ pc[i] = "count_chapters"
    /\ existing_chapters' = [existing_chapters EXCEPT ![i] = count_documents(db.chapters)]
    /\ db' = [db EXCEPT !.chapters = delete_many(@)]
    /\ pc' = [pc EXCEPT ![i] = "insert_emotions"]
    /\ UNCHANGED << err, ops, resp >>

\* existing_chapters = await db.chapters.count_documents({})
CountChapters(i) ==
    /\ Idle
    /\ pc[i] = "count_chapters"
    /\ existing_chapters' = [existing_chapters EXCEPT ![i] = count_documents(db.chapters)]
    /\ pc' = [pc EXCEPT ![i] = "insert_emotions"]
    /\ UNCHANGED << db, err, ops, resp >>

\* One insert_many of startup_db.  A duplicate key raises out of startup_db:
\* the startup fails with the documents written so far left in place.
Insert(i, at, c, docs, next) ==
    /\ Idle
    /\ pc[i] = at
    /\ LET r == insert_many(db[c], docs)
       IN  /\ db' = [db EXCEPT ![c] = r.docs]
           /\ IF r.error
              THEN /\ pc' = [pc EXCEPT ![i] = "failed"]
                   /\ err' = [err EXCEPT ![i] = "BulkWriteError"]
                   /\ UNCHANGED ops
              ELSE /\ pc' = [pc EXCEPT ![i] = next]
                   /\ ops' = [ops EXCEPT ![i].inserts = @ + 1]
                   /\ UNCHANGED err
    /\ UNCHANGED << existing_chapters, resp >>

InsertEmotions(i) == Insert(i, "insert_emotions", "emotions", emotions, "insert_moods")

InsertMoods(i) == Insert(i, "insert_moods", "moods", moods, "insert_guidances")

InsertGuidances(i) == Insert(i, "insert_guidances", "guidances", guidances, "insert_chapters")

\* Variant: the chapters are inserted whatever the count was.
InsertChaptersAlways(i) ==
    Insert(i, "insert_chapters", "chapters", chapters, "serving")

\* if existing_chapters == 0: await db.chapters.insert_many(chapters)
\* startup_db then returns and the instance starts to accept requests.
InsertChapters(i) ==
    IF existing_chapters[i] = 0
    THEN Insert(i, "insert_chapters", "chapters", chapters, "serving")
    ELSE /\ Idle
         /\ pc[i] = "insert_chapters"
         /\ pc' = [pc EXCEPT ![i] = "serving"]
         /\ UNCHANGED << db, existing_chapters, err, ops, resp >>

\* Variant: startup_db catches the store's exception, logs it and returns.
StoreUnreachableCaught(i) ==
    /\ Idle
    /\ pc[i] \in ReconcilerSteps
    /\ pc' = [pc EXCEPT ![i] = "serving"]
    /\ err' = [err EXCEPT ![i] = "ServerSelectionTimeoutError"]
    /\ UNCHANGED << db, existing_chapters, ops, resp >>

\* A store call of startup_db raises because the store cannot be reached;
\* startup_db catches nothing, so the exception ends the startup.
StoreUnreachable(i) ==
    /\ Idle
    /\ pc[i] \in ReconcilerSteps
    /\ pc' = [pc EXCEPT ![i] = "failed"]
    /\ err' = [err EXCEPT ![i] = "ServerSelectionTimeoutError"]
    /\ UNCHANGED << db, existing_chapters, ops, resp >>

\* The process ends (shutdown after serving, or exit after a failed startup)
\* and may be started again; what it held in memory is gone.
Exit(i) ==
    /\ Idle
    /\ pc[i] \in {"serving", "failed"}
    /\ pc' = [pc EXCEPT ![i] = "down"]
    /\ existing_chapters' = [existing_chapters EXCEPT ![i] = 0]
    /\ err' = [err EXCEPT ![i] = "none"]
    /\ ops' = [ops EXCEPT ![i] = NoOps]
    /\ UNCHANGED << db, resp >>

\* Variant: the handler saves what it read, sorted and normalised, back to
\* the store.
HandleAndSave(i, request, response) ==
    /\ Idle
    /\ pc[i] = "serving"
    /\ resp' = [request |-> request, status |-> response.status, body |-> response.body]
    /\ db' = [db EXCEPT !.chapters = StrIds(sort(@, "chapter_number"))]
    /\ UNCHANGED << pc, existing_chapters, err, ops >>

\* An instance that finished its startup answers one request.
Handle(i, request, response) ==
    /\ Idle
    /\ pc[i] = "serving"
    /\ resp' = [request |-> request, status |-> response.status, body |-> response.body]
    /\ UNCHANGED << db, pc, existing_chapters, err, ops >>

Root(i) == Handle(i, "/", root)

GetEmotions(i) == Handle(i, "/emotions", get_emotions(db))

GetMoods(i) ==
    \E emotion_id \in EmotionIdInputs :
        Handle(i, "/moods/" \o emotion_id, get_moods(db, emotion_id))

GetGuidance(i) ==
    \E mood_id \in MoodIdInputs :
        Handle(i, "/guidance/" \o mood_id, get_guidance(db, mood_id))

GetChapters(i) == Handle(i, "/chapters", get_chapters(db))

GetChapter(i) ==
    \E chapter_number \in ChapterSegmentInputs :
        Handle(i, "/chapters/" \o Join(chapter_number), get_chapter_route(db, chapter_number))

\* The response leaves the process.  A handler holds nothing between its one
\* read of the store and its reply, so the reply is taken as the very next
\* step (every other step waits for Idle).
Reply ==
    /\ resp # NoResponse
    /\ resp' = NoResponse
    /\ UNCHANGED << db, pc, existing_chapters, err, ops >>

Serve(i) ==
    \/ Root(i)
    \/ GetEmotions(i)
    \/ GetMoods(i)
    \/ GetGuidance(i)
    \/ GetChapters(i)
    \/ GetChapter(i)

Reconcile(i) ==
    \/ Boot(i)
    \/ DeleteEmotions(i)
    \/ DeleteMoods(i)
    \/ DeleteGuidances(i)
    \/ CountChapters(i)
    \/ InsertEmotions(i)
    \/ InsertMoods(i)
    \/ InsertGuidances(i)
    \/ InsertChapters(i)
    \/ StoreUnreachable(i)
    \/ Exit(i)

Next ==
    \/ Reply
    \/ \E i \in Instances : Reconcile(i) \/ Serve(i)

Spec == Init /\ [][Next]_vars

NextSingle ==
    \/ Reply
    \/ \E i \in Single : Reconcile(i) \/ Serve(i)

SpecSingle == Init /\ [][NextSingle]_vars

\* One store call of startup_db by instance i, the store being reachable.
StartupStep(i) ==
    \/ DeleteEmotions(i)
    \/ DeleteMoods(i)
    \/ DeleteGuidances(i)
    \/ CountChapters(i)
    \/ InsertEmotions(i)
    \/ InsertMoods(i)
    \/ InsertGuidances(i)
    \/ InsertChapters(i)

NextSingleReachable ==
    \/ Reply
    \/ \E i \in Single : Boot(i) \/ StartupStep(i) \/ Exit(i) \/ Serve(i)

\* One instance and a store that stays reachable.  startup_db is straight-line
\* code that awaits one store call after the other, and a reachable store
\* answers each call: a started run is not left waiting for ever.
SpecSingleReachable ==
    /\ Init
    /\ [][NextSingleReachable]_vars
    /\ WF_vars(\E i \in Single : StartupStep(i))

\* ---------------------------------------------------------------- properties

\* Instance i finished startup_db without an exception and accepts requests.
Completed(i) == pc[i] = "serving"

\* The indexes of the Guidance documents that refer to mood_id.
GuidancesOf(mood_id) ==
    { g \in 1..Len(db.guidances) : db.guidances[g].mood_id = mood_id }

ChapterNumbers == { db.chapters[k].chapter_number : k \in 1..Len(db.chapters) }

\* C1: after a successful run by a single instance, whatever the store held
\* before, every Mood document has exactly one Guidance document whose
\* mood_id is that Mood's _id.
C1_OneGuidancePerMood ==
    \A i \in Single :
        Completed(i) =>
            \A k \in 1..Len(db.moods) :
                Cardinality(GuidancesOf(db.moods[k]._id)) = 1

\* A run completed over a store that was not clean (the chapters it found
\* are still there) and the moods are seeded.
C1_Witness ==
    /\ Completed(1)
    /\ existing_chapters[1] > 0
    /\ Len(db.moods) = Len(moods)
    /\ Cardinality(GuidancesOf("fear_future")) = 1

\* C2: after every successful run by a single instance, the second and later
\* ones included, every Mood's emotion_id is the _id of an Emotion in the
\* store.
C2_NoOrphanMood ==
    \A i \in Single :
        Completed(i) =>
            \A k \in 1..Len(db.moods) :
                \E e \in 1..Len(db.emotions) :
                    db.emotions[e]._id = db.moods[k].emotion_id

\* A run that counted the 18 chapters an earlier run had inserted (the store
\* never holds that many before the first boot): a second or later run.
C2_Witness ==
    /\ Completed(1)
    /\ existing_chapters[1] = Len(chapters)
    /\ Len(db.moods) = Len(moods)
    /\ Len(db.emotions) = Len(emotions)

\* C3 (as claimed): after a successful run, whatever the store held before,
\* the Chapter collection holds 18 chapters numbered exactly 1..18.
C3_ChaptersCanonicalAfterRun ==
    \A i \in Single :
        Completed(i) =>
            /\ Len(db.chapters) = 18
            /\ ChapterNumbers = 1..18

\* Both instances' runs are over: each returned, or was ended by a duplicate
\* key (the store stayed reachable).
BothRunsEnded ==
    \A i \in Instances :
        \/ pc[i] = "serving"
        \/ pc[i] = "failed" /\ err[i] = "BulkWriteError"

\* C4 (as claimed): once the runs of two concurrently started instances have
\* both ended, the Emotion, Mood and Guidance collections hold the canonical
\* dataset and the Chapter collection what a single run would have left.
C4_ConcurrentRunsSafe ==
    BothRunsEnded =>
        /\ db.emotions = emotions
        /\ db.moods = moods
        /\ db.guidances = guidances
        /\ startup_db(db) = [db |-> db, error |-> FALSE]

\* C5: the store a successful single-instance run leaves is a fixed point of
\* the reconciler: running startup_db again raises nothing and leaves every
\* collection with the same documents in the same order.
C5_FixedPoint ==
    \A i \in Single :
        Completed(i) => startup_db(db) = [db |-> db, error |-> FALSE]

\* A second run completed (it counted the chapters the first had inserted)
\* and left the store as the first did.
C5_Witness ==
    /\ Completed(1)
    /\ existing_chapters[1] = Len(chapters)
    /\ db.chapters = chapters
    /\ ops[1].inserts = 3

\* C6: a request is handled only by an instance whose own run of startup_db
\* returned (all three clears and all its inserts done, no exception), and
\* an instance whose startup failed never starts to serve: it can only exit.
C6_ServeOnlyAfterReconcile ==
    /\ [](\A i \in Single :
            /\ Completed(i) =>
                /\ err[i] = "none"
                /\ ops[i].clears = 3
                /\ ops[i].inserts = IF existing_chapters[i] = 0 THEN 4 ELSE 3
            /\ resp # NoResponse => Completed(i))
    /\ [][\A i \in Single :
            /\ pc[i] = "failed" => pc'[i] \in {"failed", "down"}
            /\ (pc'[i] = "serving" /\ pc[i] # "serving") =>
                    pc[i] = "insert_chapters" /\ err'[i] = "none"]_vars

\* An instance whose startup failed on an unreachable store, with part of the
\* run done.
C6_Witness ==
    /\ pc[1] = "failed"
    /\ err[1] = "ServerSelectionTimeoutError"
    /\ ops[1].clears = 3
    /\ resp = NoResponse

\* C7: after a successful single-instance run the Emotion, Mood and Guidance
\* collections hold exactly the canonical documents, whatever they held
\* before.
C7_CanonicalAfterRun ==
    \A i \in Single :
        Completed(i) =>
            /\ db.emotions = emotions
            /\ db.moods = moods
            /\ db.guidances = guidances

\* A run completed over a store that was not clean: its non-canonical
\* chapters are still there, the other three collections are canonical.
C7_Witness ==
    /\ Completed(1)
    /\ db.chapters # chapters
    /\ db.chapters # << >>
    /\ db.emotions = emotions

\* C8: a step of a single-instance run changes the Chapter collection only
\* by inserting the canonical chapters into the empty collection it counted
\* as empty, a run that counted zero does insert them, and a run that
\* counted more leaves the collection as it was.
C8_ChaptersInsertedIffEmpty ==
    [][\A i \in Single :
        /\ db'.chapters # db.chapters =>
                /\ pc[i] = "insert_chapters"
                /\ existing_chapters[i] = 0
                /\ db.chapters = << >>
                /\ db'.chapters = chapters
        /\ (pc[i] = "insert_chapters" /\ pc'[i] = "serving") =>
                IF existing_chapters[i] = 0
                THEN db'.chapters = chapters
                ELSE db'.chapters = db.chapters]_vars

\* A run that counted a non-empty, non-canonical Chapter collection has
\* completed and the collection still has that many documents.
C8_Witness ==
    /\ Completed(1)
    /\ existing_chapters[1] > 0
    /\ Len(db.chapters) = existing_chapters[1]
    /\ db.chapters # chapters

\* C9 (as claimed): a run performs zero, one or two clears and one to four
\* bulk inserts.
C9_ClearsAtMostTwo ==
    \A i \in Instances :
        Completed(i) =>
            /\ ops[i].clears \in 0..2
            /\ ops[i].inserts \in 1..4

\* C9 (amended): a run that completes has performed exactly three clears
\* and three or four bulk inserts, four exactly when it counted zero
\* chapters; no run performs more than three clears or four inserts.
C9_ThreeClears ==
    \A i \in Instances :
        /\ ops[i].clears \in 0..3
        /\ ops[i].inserts \in 0..4
        /\ Completed(i) =>
            /\ ops[i].clears = 3
            /\ ops[i].inserts \in {3, 4}
            /\ ops[i].inserts = 4 <=> existing_chapters[i] = 0

\* A completed run with three clears and four inserts.
C9_Witness ==
    /\ Completed(1)
    /\ ops[1].clears = 3
    /\ ops[1].inserts = 4

\* C10: after a successful single-instance run, for every emotion that
\* list-emotions returns and every mood that list-moods returns for it,
\* get-guidance answers 200 with a document whose mood_id is that mood; so it
\* does for each of the six moods whose guidance was once missing.
C10_GuidanceForEveryListedMood ==
    \A i \in Single :
        Completed(i) =>
            /\ get_emotions(db).status = 200
            /\ \A e \in 1..Len(get_emotions(db).body) :
                LET listed == get_moods(db, get_emotions(db).body[e]._id)
                IN  listed.status = 200 =>
                        \A m \in 1..Len(listed.body) :
                            LET got == get_guidance(db, listed.body[m]._id)
                            IN  got.status = 200 /\ got.body.mood_id = listed.body[m]._id
            /\ \A mood_id \in NEWLY_FIXED_MOODS :
                LET got == get_guidance(db, mood_id)
                IN  got.status = 200 /\ got.body.mood_id = mood_id

\* The handler answered GET /guidance/anger_world with 200.
C10_Witness ==
    /\ Completed(1)
    /\ resp.request = "/guidance/anger_world"
    /\ resp.status = 200
    /\ resp.body.mood_id = "anger_world"

\* The _id values of the documents in a response body, a list.
IdsIn(body) == { body[k]._id : k \in 1..Len(body) }

\* The lengths of the mood lists that list-moods returns for the emotions
\* that list-emotions returns, one per emotion.
RECURSIVE TotalMoodsListed(_, _)
TotalMoodsListed(d, listed) ==
    IF listed = << >> THEN 0
    ELSE LET got == get_moods(d, Head(listed)._id)
         IN  (IF got.status = 200 THEN Len(got.body) ELSE 0)
                + TotalMoodsListed(d, Tail(listed))

C12_ElevenDistinctEmotions ==
    \A i \in Single :
        Completed(i) =>
            LET got == get_emotions(db)
            IN  /\ got.status = 200
                /\ Len(got.body) = 11
                /\ \A j, k \in 1..Len(got.body) :
                        j # k => got.body[j]._id # got.body[k]._id
                /\ IdsIn(got.body) = EXPECTED_EMOTIONS
                /\ resp.request = "/emotions" =>
                        resp.status = 200 /\ IdsIn(resp.body) = EXPECTED_EMOTIONS

\* The handler answered GET /emotions with 11 documents after a run over a
\* store that was not clean.
C12_Witness ==
    /\ Completed(1)
    /\ existing_chapters[1] > 0
    /\ resp.request = "/emotions"
    /\ resp.status = 200
    /\ Len(resp.body) = 11

\* C13: after a successful run list-moods answers 200 with a non-empty list
\* for every emotion identifier that list-emotions returns.
C13_MoodsForEveryListedEmotion ==
    \A i \in Single :
        Completed(i) =>
            /\ \A e \in 1..Len(get_emotions(db).body) :
                LET got == get_moods(db, get_emotions(db).body[e]._id)
                IN  got.status = 200 /\ Len(got.body) > 0
            /\ \A emotion_id \in IdsIn(get_emotions(db).body) \cap EmotionIdInputs :
                resp.request = "/moods/" \o emotion_id => resp.status = 200

\* The handler answered GET /moods/joy with 200; joy is a listed emotion.
C13_Witness ==
    /\ Completed(1)
    /\ "joy" \in IdsIn(get_emotions(db).body)
    /\ resp.request = "/moods/joy"
    /\ resp.status = 200

\* The indexes of the Mood documents whose emotion_id is emotion_id.
MoodsOf(emotion_id) ==
    { k \in 1..Len(db.moods) : db.moods[k].emotion_id = emotion_id }

\* C14: list-moods for an emotion identifier answers 404 exactly when no
\* Mood in the store has that emotion_id and 200 otherwise; the identifier
\* of no Emotion and the identifier of an Emotion without moods get the same
\* 404 response.
C14_MoodsNotFoundIffNone ==
    /\ \A e \in EmotionIdInputs \cup EXPECTED_EMOTIONS :
        get_moods(db, e).status = IF MoodsOf(e) = {} THEN 404 ELSE 200
    /\ \A e1, e2 \in EmotionIdInputs \cup EXPECTED_EMOTIONS :
        (MoodsOf(e1) = {} /\ MoodsOf(e2) = {}) =>
            get_moods(db, e1) = get_moods(db, e2)
    /\ \A e \in EmotionIdInputs :
        resp.request = "/moods/" \o e =>
            resp.status = IF MoodsOf(e) = {} THEN 404 ELSE 200

\* GET /moods/fear was answered 404 while the Emotion fear is in the store
\* (another instance has cleared the moods).
C14_Witness ==
    /\ resp.request = "/moods/fear"
    /\ resp.status = 404
    /\ \E k \in 1..Len(db.emotions) : db.emotions[k]._id = "fear"
    /\ get_moods(db, "invalid_emotion").status = 404

\* C15: every document that list-moods returns for an emotion identifier has
\* that emotion_id, at most 100 documents are returned, and unless more than
\* 100 match, every Mood in the store with that emotion_id is returned.
C15_MoodsOfTheEmotion ==
    \A e \in EmotionIdInputs :
        /\ LET got == get_moods(db, e)
           IN  got.status = 200 =>
                /\ Len(got.body) <= 100
                /\ \A j \in 1..Len(got.body) : got.body[j].emotion_id = e
                /\ Cardinality(MoodsOf(e)) <= 100 =>
                        IdsIn(got.body) = { db.moods[k]._id : k \in MoodsOf(e) }
        /\ (resp.request = "/moods/" \o e /\ resp.status = 200) =>
                /\ \A j \in 1..Len(resp.body) : resp.body[j].emotion_id = e
                /\ IdsIn(resp.body) = { db.moods[k]._id : k \in MoodsOf(e) }

\* GET /moods/fear returned fear's six moods out of a store that holds the
\* moods of the other emotions too.
C15_Witness ==
    /\ resp.request = "/moods/fear"
    /\ resp.status = 200
    /\ Len(resp.body) = 6
    /\ Len(db.moods) = Len(moods)

\* C16: get-guidance for a mood identifier answers 200 with a Guidance whose
\* mood_id is that identifier when the store holds one, and 404 exactly when
\* it holds none.
C16_GuidanceFoundIffPresent ==
    \A m \in MoodIdInputs \cup NEWLY_FIXED_MOODS :
        /\ LET got == get_guidance(db, m)
           IN  IF GuidancesOf(m) = {}
               THEN got.status = 404
               ELSE got.status = 200 /\ got.body.mood_id = m
        /\ (m \in MoodIdInputs /\ resp.request = "/guidance/" \o m) =>
                IF GuidancesOf(m) = {}
                THEN resp.status = 404
                ELSE resp.status = 200 /\ resp.body.mood_id = m

\* GET /guidance/invalid_mood was answered 404 by a store that holds the
\* canonical guidances.
C16_Witness ==
    /\ resp.request = "/guidance/invalid_mood"
    /\ resp.status = 404
    /\ Len(db.guidances) = Len(guidances)

\* C20: list-emotions and list-chapters answer 200 whatever the store holds,
\* with an empty list when their collection is empty, while list-moods
\* answers 404 when no mood matches.
C20_ListsNeverNotFound ==
    /\ get_emotions(db).status = 200
    /\ get_chapters(db).status = 200
    /\ Len(get_emotions(db).body) = (IF Len(db.emotions) < 100 THEN Len(db.emotions) ELSE 100)
    /\ Len(get_chapters(db).body) = (IF Len(db.chapters) < 100 THEN Len(db.chapters) ELSE 100)
    /\ resp.request \in {"/emotions", "/chapters"} => resp.status = 200
    /\ db.moods = << >> =>
            \A e \in EmotionIdInputs : get_moods(db, e).status = 404

\* GET /emotions was answered 200 with an empty list (another instance has
\* cleared the emotions).
C20_Witness ==
    /\ resp.request = "/emotions"
    /\ resp.status = 200
    /\ resp.body = << >>
    /\ db.emotions = << >>

\* The chapter numbers of a list-chapters body, in the order returned.
NumbersOf(body) == [k \in 1..Len(body) |-> body[k].chapter_number]

\* C17: list-chapters returns the chapters in ascending chapter_number order,
\* and after a run that found the chapters collection empty the numbers
\* returned are exactly 1, ..., 18, each once.
C17_ChaptersAscendingOneToEighteen ==
    /\ LET got == get_chapters(db)
       IN  /\ got.status = 200
           /\ \A j, k \in 1..Len(got.body) :
                j < k => got.body[j].chapter_number <= got.body[k].chapter_number
           /\ (Len(db.chapters) <= 100) => Len(got.body) = Len(db.chapters)
           /\ (Completed(1) /\ existing_chapters[1] = 0) =>
                NumbersOf(got.body) = [k \in 1..18 |-> k]
    /\ (resp.request = "/chapters" /\ existing_chapters[1] = 0) =>
            /\ resp.status = 200
            /\ NumbersOf(resp.body) = [k \in 1..18 |-> k]

\* GET /chapters was answered after a run that found no chapter and inserted
\* the eighteen.
C17_Witness ==
    /\ Completed(1)
    /\ existing_chapters[1] = 0
    /\ resp.request = "/chapters"
    /\ resp.status = 200
    /\ Len(resp.body) = 18

\* The integers get-chapter is asked for: around and inside 1..18.
ChapterNumberRange == (0 - 1)..(Len(chapters) + 2)

\* C18: get-chapter for an integer n answers 200 with the Chapter whose
\* chapter_number is n when the store holds one and 404 when it holds none;
\* after a run that found the chapters collection empty it answers 200 with
\* a non-empty verses list for every n in 1..18 and 404 for every other n.
C18_ChapterFoundIffPresent ==
    /\ \A n \in ChapterNumberRange :
        LET got == get_chapter(db, n)
        IN  /\ IF \E k \in 1..Len(db.chapters) : db.chapters[k].chapter_number = n
               THEN got.status = 200 /\ got.body.chapter_number = n
               ELSE got.status = 404
            /\ (Completed(1) /\ existing_chapters[1] = 0) =>
                    IF n \in 1..18
                    THEN got.status = 200 /\ got.body.verses # << >>
                    ELSE got.status = 404
    /\ \A n \in ChapterNumberInputs :
        (resp.request = "/chapters/" \o ToString(n) /\ existing_chapters[1] = 0) =>
            IF n \in 1..18
            THEN resp.status = 200 /\ resp.body.chapter_number = n /\ resp.body.verses # << >>
            ELSE resp.status = 404

\* GET /chapters/19 was answered 404 after a run that found no chapter and
\* inserted the eighteen, while /chapters/18 is found.
C18_Witness ==
    /\ Completed(1)
    /\ existing_chapters[1] = 0
    /\ resp.request = "/chapters/19"
    /\ resp.status = 404
    /\ get_chapter(db, 18).status = 200

\* C19 as stated: a malformed identifier is answered like an absent one, with
\* 404, and 404 is the only error a request ends in.
C19_OnlyNotFound ==
    /\ resp = NoResponse \/ resp.status \in {200, 404}
    /\ resp.request = "/chapters/" \o Join(MalformedChapterNumber) => resp.status = 404

\* C19: list-moods and get-guidance answer 404 for every identifier with no
\* matching document; get-chapter answers 404 for an integer with no chapter
\* and 422 for a segment that is no integer; a request ends in 200, 404 or
\* 422, and in 422 only for such a segment.
C19_NotFoundOrUnprocessable ==
    /\ resp = NoResponse \/ resp.status \in {200, 404, 422}
    /\ resp.status = 422 <=>
            resp.request = "/chapters/" \o Join(MalformedChapterNumber)
    /\ \A e \in EmotionIdInputs :
        MoodsOf(e) = {} =>
            get_moods(db, e) = HTTPException(404, "No moods found for this emotion")
    /\ \A m \in MoodIdInputs :
        GuidancesOf(m) = {} =>
            get_guidance(db, m) = HTTPException(404, "Guidance not found for this mood")
    /\ \A segment \in ChapterSegmentInputs :
        LET got == get_chapter_route(db, segment)
        IN  IF int(segment).ok
            THEN /\ Digits(int(segment).value) = segment
                 /\ int(segment).value \notin ChapterNumbers =>
                        got = HTTPException(404, "Chapter not found")
                 /\ int(segment).value \in ChapterNumbers => got.status = 200
            ELSE got.status = 422

\* GET /chapters/abc was answered 422 by an instance whose store answers 404
\* for the absent chapter 19.
C19_Witness ==
    /\ resp.request = "/chapters/abc"
    /\ resp.status = 422
    /\ get_chapter_route(db, Digits(19)).status = 404
    /\ get_chapter_route(db, Digits(18)).status = 200

\* The store with every collection but c emptied.
Only(c) == [x \in Collections |-> IF x = c THEN db[x] ELSE << >>]

\* C21: the step in which a handler answers a request leaves the four
\* collections (and every instance's run) as they were, and what each
\* handler answers is read from one collection only: emotions for
\* list-emotions, moods for list-moods, guidances for get-guidance, chapters
\* for list-chapters and get-chapter, none for root.
C21_HandlersOnlyRead ==
    /\ [][resp' # NoResponse =>
            /\ db' = db
            /\ pc' = pc
            /\ existing_chapters' = existing_chapters]_vars
    /\ [](/\ get_emotions(db) = get_emotions(Only("emotions"))
          /\ \A e \in EmotionIdInputs : get_moods(db, e) = get_moods(Only("moods"), e)
          /\ \A m \in MoodIdInputs : get_guidance(db, m) = get_guidance(Only("guidances"), m)
          /\ get_chapters(db) = get_chapters(Only("chapters"))
          /\ \A s \in ChapterSegmentInputs :
                get_chapter_route(db, s) = get_chapter_route(Only("chapters"), s))

\* GET /chapters was answered in ascending order from a Chapter collection
\* that is stored in another order, and the collection is still stored so.
C21_Witness ==
    /\ resp.request = "/chapters"
    /\ resp.status = 200
    /\ Len(db.chapters) = 2
    /\ db.chapters[1].chapter_number > db.chapters[2].chapter_number
    /\ resp.body[1].chapter_number < resp.body[2].chapter_number

\* {} -- a record with no field.
EmptyDoc == [x \in {} |-> 0]

\* The records str_id is applied to: the documents a store can hold before
\* the first boot (string, integer and ObjectId identifiers), canonical
\* documents, None, the empty record and a record without _id.
StrIdInputs ==
    PriorPool.emotions \o PriorPool.moods \o PriorPool.guidances \o PriorPool.chapters
        \o << emotions[2], chapters[18], None, EmptyDoc, [name_english |-> "Fear"] >>

\* The contract of str_id for one record obj.
StrIdContract(obj) ==
    LET got == str_id(obj)
    IN  /\ str_id(got) = got
        /\ IF obj = None \/ obj = EmptyDoc \/ "_id" \notin DOMAIN obj
           THEN got = obj
           ELSE /\ DOMAIN got = DOMAIN obj
                /\ \A f \in DOMAIN obj \ {"_id", "id_type"} : got[f] = obj[f]
                /\ IF obj.id_type \in {"str", "int"}
                   THEN got.id_type = obj.id_type /\ got._id = obj._id
                   ELSE got.id_type = "str" /\ got._id = str(obj._id, obj.id_type)

\* C22: str_id leaves a string or integer identifier as it is (an integer
\* stays an integer), replaces any other identifier by its string, leaves
\* every other field, None, the empty record and a record without _id
\* unchanged, and is idempotent; the chapters a handler returns carry the
\* integer identifiers they are stored with.
C22_StrIdContract ==
    /\ \A k \in 1..Len(StrIdInputs) : StrIdContract(StrIdInputs[k])
    /\ \A c \in Collections : \A k \in 1..Len(db[c]) : StrIdContract(db[c][k])
    /\ (resp.request = "/chapters" /\ resp.status = 200) =>
            \A k \in 1..Len(resp.body) :
                /\ resp.body[k].id_type = "int"
                /\ resp.body[k]._id = resp.body[k].chapter_number
    /\ (resp.request = "/emotions" /\ resp.status = 200) =>
            \A k \in 1..Len(resp.body) :
                /\ resp.body[k].id_type = "str"
                /\ resp.body[k] = db.emotions[k]

\* GET /chapters returned stored chapters, their identifiers still integers.
C22_Witness ==
    /\ resp.request = "/chapters"
    /\ resp.status = 200
    /\ Len(resp.body) = Len(chapters)
    /\ resp.body[18].id_type = "int"
    /\ resp.body[18]._id = 18

\* The length argument of every to_list call of the handlers.
ListCap == 100

\* A store over the cap: 101 emotions, 101 moods of the emotion fear and 101
\* chapters, numbered 1..101 and stored in that order.
Overfull ==
    [emotions |-> [k \in 1..(ListCap + 1) |-> [emotions[1] EXCEPT !._id = ToString(k)]],
     moods |-> [k \in 1..(ListCap + 1) |-> [moods[1] EXCEPT !._id = ToString(k)]],
     guidances |-> << >>,
     chapters |-> [k \in 1..(ListCap + 1) |->
                    [chapters[1] EXCEPT !._id = k, !.chapter_number = k]]]

\* C23: a list endpoint returns at most 100 documents, also from a store
\* that holds more (for the chapters, which are stored in ascending order
\* there, the cut is applied to the stored sequence); each canonical list (the 11 emotions, the moods of one
\* emotion, the 18 chapters) is shorter than that, and after a successful
\* run every list response holds every document that matches in the store.
C23_ListsUnderCap ==
    /\ Len(get_emotions(Overfull).body) = ListCap
    /\ Len(get_moods(Overfull, "fear").body) = ListCap
    /\ Len(to_list(Overfull.chapters, ListCap)) = ListCap
    /\ Len(emotions) < ListCap
    /\ Len(chapters) < ListCap
    /\ \A e \in 1..Len(emotions) :
        Cardinality({ k \in 1..Len(moods) : moods[k].emotion_id = emotions[e]._id }) < ListCap
    /\ \A i \in Single :
        Completed(i) =>
            /\ IdsIn(get_emotions(db).body) = IdsIn(emotions)
            /\ Len(get_emotions(db).body) = Len(db.emotions)
            /\ \A e \in 1..Len(emotions) :
                IdsIn(get_moods(db, emotions[e]._id).body)
                    = { moods[k]._id : k \in { j \in 1..Len(moods) : moods[j].emotion_id = emotions[e]._id } }
            /\ Len(get_chapters(db).body) = Len(db.chapters)
            /\ existing_chapters[i] = 0 => IdsIn(get_chapters(db).body) = IdsIn(chapters)
    /\ (resp.request = "/emotions" /\ resp.status = 200) => Len(resp.body) = Len(emotions)
    /\ (resp.request = "/chapters" /\ resp.status = 200) => Len(resp.body) = Len(db.chapters)

\* GET /moods/joy returned all six moods of joy after a run.
C23_Witness ==
    /\ Completed(1)
    /\ resp.request = "/moods/joy"
    /\ resp.status = 200
    /\ Len(resp.body) = 6
    /\ Len(get_emotions(db).body) = 11

\* Where a run stands after its clear of the Mood collection and before its
\* insert of the moods has been done.
MoodsClearedNotInserted ==
    {"delete_guidances", "count_chapters", "insert_emotions", "insert_moods"}

\* C24: the clear and the re-insert of a collection are separate steps of a
\* run, each step changing one collection at most, and a clear leaves its
\* collection empty until a later step; a request for the moods of the
\* canonical emotion fear or for the guidance of the canonical mood
\* fear_future is answered 404 only while that collection is empty.
C24_TransientNotFound ==
    /\ [][/\ Cardinality({ c \in Collections : db'[c] # db[c] }) <= 1
          /\ \A i \in Instances :
                /\ (pc[i] = "delete_moods" /\ pc'[i] # pc[i] /\ pc'[i] # "failed") =>
                        pc'[i] \in MoodsClearedNotInserted /\ db'.moods = << >>
                /\ (pc[i] = "delete_guidances" /\ pc'[i] # pc[i] /\ pc'[i] # "failed") =>
                        pc'[i] = "count_chapters" /\ db'.guidances = << >>]_vars
    /\ []((resp.request = "/moods/fear" /\ resp.status = 404) => db.moods = << >>)
    /\ []((resp.request = "/guidance/fear_future" /\ resp.status = 404) => db.guidances = << >>)

\* Instance 1 serves and answered GET /moods/fear with 404 while instance 2
\* has cleared the moods and not yet re-inserted them.
C24_Witness ==
    /\ pc[1] = "serving"
    /\ pc[2] \in MoodsClearedNotInserted
    /\ resp.request = "/moods/fear"
    /\ resp.status = 404
    /\ db.moods = << >>

\* C25 (as claimed): in every state of a store that a run has seeded before
\* (it holds the 18 chapters only a completed run inserts), the states
\* between two store operations of a later run included, every Mood's
\* emotion_id is the _id of an Emotion in the store.
C25_NoOrphanMoodEver ==
    Len(db.chapters) = Len(chapters) =>
        \A k \in 1..Len(db.moods) :
            \E e \in 1..Len(db.emotions) :
                db.emotions[e]._id = db.moods[k].emotion_id

\* C26 (as claimed): with two instances running startup_db against one
\* store, no insert_many of either run is rejected: no run ends in a
\* duplicate-key error, with the chapters or with any other collection.
C26_NoRunAborts ==
    \A i \in Instances :
        /\ err[i] # "BulkWriteError"
        /\ (pc[i] = "serving" /\ existing_chapters[i] = 0) => ops[i].inserts = 4

\* C27: run by a single instance against a store that stays reachable,
\* whatever the store held before, startup_db raises nothing and every
\* started run returns: the _id values within each canonical collection are
\* pairwise distinct, the Emotion, Mood and Guidance collections are empty
\* when their insert runs, and so is the Chapter collection when the run
\* counted zero.
C27_SingleRunTerminates ==
    /\ [](/\ UniqueIds(emotions) /\ UniqueIds(moods)
          /\ UniqueIds(guidances) /\ UniqueIds(chapters)
          /\ \A i \in Single :
                /\ err[i] = "none"
                /\ pc[i] # "failed"
                /\ pc[i] = "insert_emotions" => db.emotions = << >>
                /\ pc[i] = "insert_moods" => db.moods = << >>
                /\ pc[i] = "insert_guidances" => db.guidances = << >>
                /\ (pc[i] = "insert_chapters" /\ existing_chapters[i] = 0) =>
                        db.chapters = << >>)
    /\ \A i \in Single : (pc[i] = "delete_emotions") ~> Completed(i)

\* A run completed over a store that held one chapter before: three inserts,
\* no exception.
C27_Witness ==
    /\ Completed(1)
    /\ err[1] = "none"
    /\ existing_chapters[1] = 1
    /\ ops[1].inserts = 3
    /\ db.guidances = guidances

\* The store call that follows each store call of startup_db; the return
\* follows the last.
FollowingStep ==
    [s \in ReconcilerSteps |->
        CASE s = "delete_emotions" -> "delete_moods"
          [] s = "delete_moods" -> "delete_guidances"
          [] s = "delete_guidances" -> "count_chapters"
          [] s = "count_chapters" -> "insert_emotions"
          [] s = "insert_emotions" -> "insert_moods"
          [] s = "insert_moods" -> "insert_guidances"
          [] s = "insert_guidances" -> "insert_chapters"
          [] s = "insert_chapters" -> "serving"]

\* C28: a run goes through its store calls in one order, each once and
\* never again after a failure: clear emotions, clear moods, clear
\* guidances, count chapters, insert emotions, insert moods, insert
\* guidances, then insert chapters only if the count was zero; the count is
\* taken at that one place and the chapters decision uses it as taken, also
\* when the collection has changed since.
C28_FixedOrderNoRetry ==
    [][\A i \in Instances :
        /\ pc'[i] # pc[i] =>
            \/ pc[i] = "down" /\ pc'[i] = "delete_emotions"
            \/ pc[i] \in ReconcilerSteps /\ pc'[i] \in {FollowingStep[pc[i]], "failed"}
            \/ pc[i] \in {"serving", "failed"} /\ pc'[i] = "down"
        /\ (pc[i] \in ReconcilerSteps /\ pc'[i] = FollowingStep[pc[i]]) =>
            CASE pc[i] = "delete_emotions" -> db' = [db EXCEPT !.emotions = << >>]
              [] pc[i] = "delete_moods" -> db' = [db EXCEPT !.moods = << >>]
              [] pc[i] = "delete_guidances" -> db' = [db EXCEPT !.guidances = << >>]
              [] pc[i] = "count_chapters" ->
                    db' = db /\ existing_chapters'[i] = Len(db.chapters)
              [] pc[i] = "insert_emotions" -> db' = [db EXCEPT !.emotions = @ \o emotions]
              [] pc[i] = "insert_moods" -> db' = [db EXCEPT !.moods = @ \o moods]
              [] pc[i] = "insert_guidances" -> db' = [db EXCEPT !.guidances = @ \o guidances]
              [] pc[i] = "insert_chapters" ->
                    IF existing_chapters[i] = 0
                    THEN db' = [db EXCEPT !.chapters = @ \o chapters]
                    ELSE db' = db
        /\ existing_chapters'[i] # existing_chapters[i] =>
                pc[i] = "count_chapters" \/ pc'[i] = "down"
        /\ (pc[i] = "insert_chapters" /\ pc'[i] = "failed" /\ err'[i] = "BulkWriteError") =>
                existing_chapters[i] = 0 /\ db.chapters # << >>]_vars

\* A run that counted zero chapters went on to insert them although the
\* other instance had inserted them since, and failed on the duplicate.
C28_Witness ==
    /\ pc[1] = "failed"
    /\ err[1] = "BulkWriteError"
    /\ existing_chapters[1] = 0
    /\ ops[1].inserts = 3
    /\ db.chapters = chapters

\* C29: the store call of a run that fails ends the run there: the failing
\* step leaves the store and the count of the run's completed operations as
\* they were, the failed instance does nothing more than exit, and the
\* store changes only by a call that succeeds; so the effect of the calls
\* completed before the failure stays, nothing undone and nothing added.
C29_FailureStopsTheRun ==
    /\ [][\A i \in Instances :
            /\ (pc'[i] = "failed" /\ pc[i] # "failed") =>
                    /\ pc[i] \in ReconcilerSteps
                    /\ err'[i] # "none"
                    /\ db' = db
                    /\ ops'[i] = ops[i]
            /\ pc[i] = "failed" =>
                    /\ pc'[i] \in {"failed", "down"}
                    /\ ops'[i] \in {ops[i], NoOps}]_vars
    /\ [][db' # db =>
            \E j \in Instances :
                pc[j] \in ReconcilerSteps /\ pc'[j] = FollowingStep[pc[j]]]_vars
    /\ [](\A i \in Instances : err[i] # "none" <=> pc[i] = "failed")

\* The only instance started failed on an unreachable store after its three
\* clears and before its first insert: the three collections are empty.
C29_Witness ==
    /\ pc[1] = "failed"
    /\ pc[2] = "down"
    /\ err[1] = "ServerSelectionTimeoutError"
    /\ ops[1] = [clears |-> 3, inserts |-> 0]
    /\ db.emotions = << >>
    /\ db.moods = << >>
    /\ db.guidances = << >>

\* C30: after a successful single-instance run every Guidance's mood_id is
\* the _id of a Mood in the store, no two Guidance documents have the same
\* mood_id, and there are as many guidances as moods.
C30_GuidanceMoodOneToOne ==
    \A i \in Single :
        Completed(i) =>
            /\ \A g \in 1..Len(db.guidances) :
                \E k \in 1..Len(db.moods) : db.moods[k]._id = db.guidances[g].mood_id
            /\ \A g, h \in 1..Len(db.guidances) :
                db.guidances[g].mood_id = db.guidances[h].mood_id => g = h
            /\ Len(db.guidances) = Len(db.moods)

\* A run completed and the store holds the 66 guidances, the one of the last
\* mood among them.
C30_Witness ==
    /\ Completed(1)
    /\ Len(db.guidances) = Len(guidances)
    /\ Len(db.moods) = Len(moods)
    /\ GuidancesOf(moods[Len(moods)]._id) # {}

====
